---- MODULE Spec2Model ----
(***************************************************************************)
(* Model of src/src/spa_json_serializer.rs: the spa-json text emitter.     *)
(*                                                                         *)
(* Text is a sequence of characters, each character a one-character        *)
(* string (the backspace U+0008, which TLA+ cannot write in a string, is   *)
(* the atom BS).  The Serializer struct is the record variable             *)
(* `serializer`.  Every method of the emitter is an operator from          *)
(* serializer records to serializer records; the actions below call them   *)
(* in the order the serde protocol lets a producer call them.              *)
(***************************************************************************)
EXTENDS Integers, Sequences, FiniteSets, TLC

VARIABLES
    serializer,  \* the Serializer of to_string: [output, indent]
    pc,          \* position of the call chain: "call" | "body" | "ret" | "err" | "done"
    stack,       \* frames of the calls in progress, innermost last
    open,        \* kinds of the compounds begun and not ended, innermost last
    last,        \* the serializer method call that completed most recently
    error,       \* the Err value travelling up the call chain ("" when none)
    result,      \* what to_string returned
    calls,       \* number of values the producer has handed to the serializer
    input,       \* escape_string: the argument s
    pos,         \* escape_string: characters of s consumed by the for loop
    escaped      \* escape_string: the local String escaped

vars == <<serializer, pc, stack, open, last, error, result, calls, input, pos, escaped>>

serVars == <<serializer, pc, stack, open, last, error, result, calls>>

escVars == <<input, pos, escaped>>

(***************************************************************************)
(* Bounds of the model.                                                    *)
(***************************************************************************)
\* values one to_string call hands to the serializer, compounds included
MaxCalls == 3

\* length of the strings escape_string is run on
MaxStrLen == 3

\* length of the strings searched for a second preimage of an escaped text
MaxOtherLen == 1

(***************************************************************************)
(* Characters and text.                                                    *)
(***************************************************************************)
QUOTE == "\""

BACKSLASH == "\\"

LF == "\n"

CR == "\r"

TAB == "\t"

BS == "U+0008"

FF == "\f"

SP == " "

Specials == {QUOTE, BACKSLASH, LF, CR, TAB, BS, FF}

\* the non-ASCII character a-umlaut
AUML == "U+00E4"

\* ordinary characters: letters the escapes use, one more, and a non-ASCII one
Ordinary == {"n", "b", "a", AUML}

Alphabet == Specials \cup Ordinary

RECURSIVE Spaces(_)
\* " ".repeat(n)
Spaces(n) == IF n = 0 THEN <<>> ELSE <<SP>> \o Spaces(n - 1)

RECURSIVE StringsOfLen(_)
StringsOfLen(n) ==
    IF n = 0 THEN {<<>>}
    ELSE {<<c>> \o t : c \in Alphabet, t \in StringsOfLen(n - 1)}

StringsUpTo(n) == UNION {StringsOfLen(k) : k \in 0..n}

\* the characters t[a+1 .. b] of a text
Slice(t, a, b) == SubSeq(t, a + 1, b)

RECURSIVE Count(_, _)
\* occurrences of the character c in the text t
Count(c, t) ==
    IF t = <<>> THEN 0
    ELSE (IF Head(t) = c THEN 1 ELSE 0) + Count(c, Tail(t))

(***************************************************************************)
(* escape_string (lines 444-459).                                          *)
(***************************************************************************)
\* the match of the loop body with the backslash arm missing
escape_char_no_backslash(c) ==
    CASE c = QUOTE -> <<BACKSLASH, QUOTE>>
      [] c = LF -> <<BACKSLASH, "n">>
      [] c = CR -> <<BACKSLASH, "r">>
      [] c = TAB -> <<BACKSLASH, "t">>
      [] c = BS -> <<BACKSLASH, "b">>
      [] c = FF -> <<BACKSLASH, "f">>
      [] OTHER -> <<c>>

\* the match of the loop body: what one character pushes onto escaped
escape_char(c) ==
    CASE c = QUOTE -> <<BACKSLASH, QUOTE>>
      [] c = BACKSLASH -> <<BACKSLASH, BACKSLASH>>
      [] c = LF -> <<BACKSLASH, "n">>
      [] c = CR -> <<BACKSLASH, "r">>
      [] c = TAB -> <<BACKSLASH, "t">>
      [] c = BS -> <<BACKSLASH, "b">>
      [] c = FF -> <<BACKSLASH, "f">>
      [] OTHER -> <<c>>

RECURSIVE escape_string(_)
escape_string(s) ==
    IF s = <<>> THEN <<>> ELSE escape_char(Head(s)) \o escape_string(Tail(s))

(***************************************************************************)
(* The platform's number-to-text conversions (ToString for i64, u64, f64). *)
(***************************************************************************)
Digits == <<"0", "1", "2", "3", "4", "5", "6", "7", "8", "9">>

RECURSIVE u64_to_string(_)
\* u64::to_string: base 10, most significant digit first, no leading zero
u64_to_string(v) ==
    IF v < 10 THEN <<Digits[v + 1]>>
    ELSE u64_to_string(v \div 10) \o <<Digits[(v % 10) + 1]>>

\* i64::to_string: a minus sign, then the magnitude
i64_to_string(v) ==
    IF v < 0 THEN <<"-">> \o u64_to_string(0 - v) ELSE u64_to_string(v)

\* A float is [class, neg, int, frac]: class "nan", "inf" or "finite"; int the
\* integral part and frac the digits after the point of its shortest decimal form.
\* f64::to_string: NaN, inf, -inf; else sign, integral part and, when there
\* are any, a point and the fractional digits (30.0 prints as 30).
f64_to_string(v) ==
    CASE v.class = "nan" -> <<"N", "a", "N">>
      [] v.class = "inf" -> (IF v.neg THEN <<"-">> ELSE <<>>) \o <<"i", "n", "f">>
      [] OTHER ->
           (IF v.neg THEN <<"-">> ELSE <<>>)
           \o u64_to_string(v.int)
           \o (IF v.frac = <<>> THEN <<>>
               ELSE <<".">> \o [i \in 1..Len(v.frac) |-> Digits[v.frac[i] + 1]])

(***************************************************************************)
(* impl Serializer (lines 21-33).                                          *)
(***************************************************************************)
\* self.output += t
push_str(s, t) == [s EXCEPT !.output = @ \o t]

\* indent that forgets to move the counter
indent_noop(s) == s

indent(s) == [s EXCEPT !.indent = @ + 2]

\* dedent that takes one step too many
dedent_by_four(s) == [s EXCEPT !.indent = IF @ >= 4 THEN @ - 4 ELSE 0]

\* usize::saturating_sub(2)
dedent(s) == [s EXCEPT !.indent = IF @ >= 2 THEN @ - 2 ELSE 0]

write_indent(s) == push_str(s, Spaces(s.indent))

(***************************************************************************)
(* impl ser::Serializer for &mut Serializer (lines 35-233): the methods    *)
(* that take no nested value.                                              *)
(***************************************************************************)
serialize_bool(s, v) ==
    push_str(s, IF v THEN <<"t", "r", "u", "e">> ELSE <<"f", "a", "l", "s", "e">>)

serialize_i64(s, v) == push_str(s, i64_to_string(v))

\* i64::from(v) keeps the value
serialize_i8(s, v) == serialize_i64(s, v)

serialize_i16(s, v) == serialize_i64(s, v)

serialize_i32(s, v) == serialize_i64(s, v)

serialize_u64(s, v) == push_str(s, u64_to_string(v))

\* u64::from(v) keeps the value
serialize_u8(s, v) == serialize_u64(s, v)

serialize_u16(s, v) == serialize_u64(s, v)

serialize_u32(s, v) == serialize_u64(s, v)

serialize_f64(s, v) == push_str(s, f64_to_string(v))

\* f64::from(v) is exact
serialize_f32(s, v) == serialize_f64(s, v)

serialize_str(s, v) == push_str(s, escape_string(v))

\* serialize_char that pushes the character as it is
serialize_char_raw(s, v) == push_str(s, <<v>>)

\* v.to_string() is the one-character string
serialize_char(s, v) == serialize_str(s, <<v>>)

serialize_unit(s) == push_str(s, <<"n", "u", "l", "l">>)

serialize_none(s) == serialize_unit(s)

serialize_unit_struct(s) == serialize_unit(s)

serialize_unit_variant(s, variant) == serialize_str(s, variant)

\* serialize_seq that forgets indent()
serialize_seq_no_indent(s) == push_str(s, <<"[", LF>>)

serialize_seq(s) == indent(push_str(s, <<"[", LF>>))

serialize_tuple(s) == serialize_seq(s)

serialize_tuple_struct(s) == serialize_seq(s)

\* serialize_tuple_variant without its second indent()
serialize_tuple_variant_one_indent(s, variant) ==
    LET s1 == write_indent(indent(push_str(s, <<"{", LF>>)))
        s2 == serialize_str(s1, variant)
    IN  push_str(s2, <<SP, "=", SP, "[", LF>>)

\* the variant name is a &str: variant.serialize is serialize_str and cannot fail
serialize_tuple_variant(s, variant) ==
    LET s1 == write_indent(indent(push_str(s, <<"{", LF>>)))
        s2 == serialize_str(s1, variant)
    IN  indent(push_str(s2, <<SP, "=", SP, "[", LF>>))

serialize_map(s) == indent(push_str(s, <<"{", LF>>))

serialize_struct(s) == serialize_map(s)

serialize_struct_variant(s, variant) ==
    LET s1 == write_indent(indent(push_str(s, <<"{", LF>>)))
        s2 == serialize_str(s1, variant)
    IN  indent(push_str(s2, <<SP, "=", SP, "{", LF>>))

(***************************************************************************)
(* The methods that serialize a nested value, cut at the nested call:      *)
(* X_enter is the code before value.serialize(..), X_leave the code after  *)
(* it returned Ok.  When it returned Err the ? returns at once.            *)
(***************************************************************************)
\* lines 162-164
serialize_newtype_variant_enter(s, variant) ==
    push_str(serialize_str(push_str(s, <<"{", SP>>), variant), <<SP, "=", SP>>)

\* the closing brace put on a line of its own
serialize_newtype_variant_leave_own_line(s) == push_str(s, <<LF, "}">>)

\* line 166
serialize_newtype_variant_leave(s) == push_str(s, <<SP, "}">>)

\* impl SerializeSeq (lines 235-255)
SerializeSeq_serialize_element_enter(s) == write_indent(s)

SerializeSeq_serialize_element_leave(s) == push_str(s, <<LF>>)

SerializeSeq_end(s) == push_str(write_indent(dedent(s)), <<"]">>)

\* impl SerializeTuple (lines 257-277)
SerializeTuple_serialize_element_enter(s) == write_indent(s)

SerializeTuple_serialize_element_leave(s) == push_str(s, <<LF>>)

SerializeTuple_end(s) == push_str(write_indent(dedent(s)), <<"]">>)

\* impl SerializeTupleStruct (lines 279-299)
SerializeTupleStruct_serialize_field_enter(s) == write_indent(s)

SerializeTupleStruct_serialize_field_leave(s) == push_str(s, <<LF>>)

SerializeTupleStruct_end(s) == push_str(write_indent(dedent(s)), <<"]">>)

\* impl SerializeTupleVariant (lines 301-324)
SerializeTupleVariant_serialize_field_enter(s) == write_indent(s)

SerializeTupleVariant_serialize_field_leave(s) == push_str(s, <<LF>>)

\* end that closes the bracket and forgets the brace
SerializeTupleVariant_end_one_level(s) == push_str(write_indent(dedent(s)), <<"]">>)

SerializeTupleVariant_end(s) ==
    LET s1 == push_str(write_indent(dedent(s)), <<"]", LF>>)
    IN  push_str(write_indent(dedent(s1)), <<"}">>)

\* impl SerializeMap (lines 326-354)
SerializeMap_serialize_key_enter(s) == write_indent(s)

\* serialize_key returns what key.serialize returned
SerializeMap_serialize_key_leave(s) == s

SerializeMap_serialize_value_enter(s) == push_str(s, <<SP, "=", SP>>)

SerializeMap_serialize_value_leave(s) == push_str(s, <<LF>>)

SerializeMap_end(s) == push_str(write_indent(dedent(s)), <<"}">>)

\* impl SerializeStruct (lines 356-382); the key is a &str
\* serialize_field that writes the value before the key's line
SerializeStruct_serialize_field_enter_no_key(s, key) ==
    push_str(write_indent(s), <<SP, "=", SP>>)

SerializeStruct_serialize_field_enter(s, key) ==
    push_str(serialize_str(write_indent(s), key), <<SP, "=", SP>>)

SerializeStruct_serialize_field_leave(s) == push_str(s, <<LF>>)

SerializeStruct_end(s) == push_str(write_indent(dedent(s)), <<"}">>)

\* impl SerializeStructVariant (lines 384-413)
SerializeStructVariant_serialize_field_enter(s, key) ==
    push_str(serialize_str(write_indent(s), key), <<SP, "=", SP>>)

SerializeStructVariant_serialize_field_leave(s) == push_str(s, <<LF>>)

SerializeStructVariant_end(s) ==
    LET s1 == push_str(write_indent(dedent(s)), <<"}", LF>>)
    IN  push_str(write_indent(dedent(s1)), <<"}">>)

RECURSIVE serialize_bytes_loop(_, _)
\* for byte in v { seq.serialize_element(byte)?; }  (a u8 serializes by serialize_u8)
serialize_bytes_loop(s, v) ==
    IF v = <<>> THEN s
    ELSE serialize_bytes_loop(
           SerializeSeq_serialize_element_leave(
             serialize_u8(SerializeSeq_serialize_element_enter(s), Head(v))),
           Tail(v))

\* lines 103-110
serialize_bytes(s, v) == SerializeSeq_end(serialize_bytes_loop(serialize_seq(s), v))

(***************************************************************************)
(* Error (lines 415-425) and to_string (lines 9-19).                       *)
(***************************************************************************)
\* ser::Error::custom
custom(msg) == [kind |-> "Message", msg |-> msg]

\* to_string that hands back the text built so far when the value failed
to_string_partial(s, r) == [tag |-> "Ok", text |-> s.output]

\* r is what value.serialize returned: [tag |-> "Ok"] or [tag |-> "Err", error].  On Ok the
\* output is moved out; on Err the ? returns the error and the Serializer is dropped.
to_string(s, r) ==
    IF r.tag = "Ok" THEN [tag |-> "Ok", text |-> s.output]
    ELSE [tag |-> "Err", error |-> r.error]

(***************************************************************************)
(* The state of one to_string call.                                        *)
(*                                                                         *)
(* A frame of `stack` is a call in progress.  For an open compound (the    *)
(* producer's serialize holds the handle serialize_seq, serialize_map, ... *)
(* returned) kind is the handle's trait.  For a method of the emitter      *)
(* waiting for a nested value.serialize kind is "element", "key", "value", *)
(* "field", "newtype_variant", "some" or "newtype_struct".                 *)
(* Frames also keep where in the output things were written: d the         *)
(* counter and start the output length when the call began, at the output  *)
(* length where the current line began, kfrom..kto the key or field name,  *)
(* from where the nested value began, items the lines completed so far.    *)
(***************************************************************************)
SeqKinds == {"seq", "tuple", "tuple_struct", "tuple_variant"}

FieldKinds == {"struct", "struct_variant"}

CompoundKinds == SeqKinds \cup FieldKinds \cup {"map"}

Frame(kind, method, name, d, start, at, kfrom, kto, from) ==
    [kind |-> kind, method |-> method, name |-> name, d |-> d, start |-> start,
     at |-> at, kfrom |-> kfrom, kto |-> kto, from |-> from,
     phase |-> "key", items |-> <<>>]

NoCall ==
    [method |-> "none", v |-> <<>>, name |-> <<>>, d |-> 0, start |-> 0, end |-> 0,
     from |-> 0, to |-> 0, depth |-> 0, items |-> <<>>]

Top == stack[Len(stack)]

Pop == SubSeq(stack, 1, Len(stack) - 1)

\* the stack without its top frame, the frame below replaced by f
PopInto(f) == [SubSeq(stack, 1, Len(stack) - 1) EXCEPT ![Len(stack) - 1] = f]

Parent == stack[Len(stack) - 1]

\* the line a nested value.serialize just completed, as the parent keeps it
Item(f, s) ==
    [at |-> f.at, kfrom |-> f.kfrom, kto |-> f.kto, from |-> f.from,
     to |-> Len(s.output), counter |-> f.d, name |-> f.name, method |-> last.method]

Init ==
    /\ serializer = [output |-> <<>>, indent |-> 0]
    /\ pc = "call"
    /\ stack = <<>>
    /\ open = <<>>
    /\ last = NoCall
    /\ error = ""
    /\ result = [tag |-> "none"]
    /\ calls = 0
    /\ input = <<>>
    /\ pos = 0
    /\ escaped = <<>>

(***************************************************************************)
(* The values the producer describes.  The first value of a call (the one  *)
(* handed to to_string) is drawn from the wide sets, a nested value from   *)
(* the narrow ones.                                                        *)
(***************************************************************************)
TopLevelOnly(S) == IF stack = <<>> THEN S ELSE {}

BoolValues == TopLevelOnly(BOOLEAN)

I8Values == TopLevelOnly({0 - 128, 127})

I16Values == TopLevelOnly({0 - 32768})

I32Values == TopLevelOnly({70000})

I64Values == TopLevelOnly({0 - 5, 0, 1234567890})

U8Values == TopLevelOnly({255})

U16Values == TopLevelOnly({65535})

U32Values == TopLevelOnly({100000})

U64Values == TopLevelOnly({0, 10}) \cup {1, 2}

Finite(neg, int, frac) == [class |-> "finite", neg |-> neg, int |-> int, frac |-> frac]

F32Values == TopLevelOnly({Finite(FALSE, 1, <<5>>), Finite(TRUE, 0, <<2, 5>>)})

F64Values ==
    TopLevelOnly({Finite(FALSE, 30, <<>>), Finite(FALSE, 55, <<3, 3, 3, 3, 3>>),
                  Finite(TRUE, 0, <<>>),
                  [class |-> "nan", neg |-> FALSE, int |-> 0, frac |-> <<>>],
                  [class |-> "inf", neg |-> FALSE, int |-> 0, frac |-> <<>>],
                  [class |-> "inf", neg |-> TRUE, int |-> 0, frac |-> <<>>]})

CharValues == TopLevelOnly({"a", SP, "[", "}", LF, QUOTE, AUML})

\* He said "hi" and a newline (the spec's scenario 6), and strings with spaces,
\* delimiters and every special character
StrValues ==
    TopLevelOnly({<<>>,
                  <<"H", "e", SP, "s", "a", "i", "d", SP, QUOTE, "h", "i", QUOTE, LF>>,
                  <<SP, SP, "[", "a", "]", SP, "{", "}">>,
                  <<QUOTE, BACKSLASH, LF, CR, TAB, BS, FF>>,
                  <<BACKSLASH, "n">>})
    \cup {<<"s">>}

BytesValues == TopLevelOnly({<<>>, <<0, 255>>}) \cup {<<7>>}

VariantNames == {<<"V">>}

FieldNames == {<<"b">>, <<"a">>}

Messages == {"boom"}

(***************************************************************************)
(* The producer calls a method that takes no nested value.                 *)
(***************************************************************************)
\* value.serialize(serializer) called `method` with v, which left the Serializer s2
Leaf(method, v, s2) ==
    /\ pc = "call"
    /\ serializer' = s2
    /\ last' = [method |-> method, v |-> v, name |-> <<>>, d |-> serializer.indent,
                start |-> Len(serializer.output), end |-> Len(s2.output),
                from |-> Len(serializer.output), to |-> Len(s2.output),
                depth |-> Len(open), items |-> <<>>]
    /\ calls' = calls + 1
    /\ pc' = "ret"
    /\ UNCHANGED <<stack, open, error, result, escVars>>

SerializeBool == \E v \in BoolValues : Leaf("serialize_bool", v, serialize_bool(serializer, v))

SerializeI8 == \E v \in I8Values : Leaf("serialize_i8", v, serialize_i8(serializer, v))

SerializeI16 == \E v \in I16Values : Leaf("serialize_i16", v, serialize_i16(serializer, v))

SerializeI32 == \E v \in I32Values : Leaf("serialize_i32", v, serialize_i32(serializer, v))

SerializeI64 == \E v \in I64Values : Leaf("serialize_i64", v, serialize_i64(serializer, v))

SerializeU8 == \E v \in U8Values : Leaf("serialize_u8", v, serialize_u8(serializer, v))

SerializeU16 == \E v \in U16Values : Leaf("serialize_u16", v, serialize_u16(serializer, v))

SerializeU32 == \E v \in U32Values : Leaf("serialize_u32", v, serialize_u32(serializer, v))

SerializeU64 == \E v \in U64Values : Leaf("serialize_u64", v, serialize_u64(serializer, v))

SerializeF32 == \E v \in F32Values : Leaf("serialize_f32", v, serialize_f32(serializer, v))

SerializeF64 == \E v \in F64Values : Leaf("serialize_f64", v, serialize_f64(serializer, v))

SerializeChar == \E v \in CharValues : Leaf("serialize_char", <<v>>, serialize_char(serializer, v))

SerializeStr == \E v \in StrValues : Leaf("serialize_str", v, serialize_str(serializer, v))

SerializeBytes == \E v \in BytesValues : Leaf("serialize_bytes", v, serialize_bytes(serializer, v))

SerializeNone == Leaf("serialize_none", <<>>, serialize_none(serializer))

SerializeUnit == Leaf("serialize_unit", <<>>, serialize_unit(serializer))

SerializeUnitStruct == Leaf("serialize_unit_struct", <<>>, serialize_unit_struct(serializer))

SerializeUnitVariant ==
    \E variant \in VariantNames :
        Leaf("serialize_unit_variant", variant, serialize_unit_variant(serializer, variant))

(***************************************************************************)
(* The producer calls a method that wraps one nested value.                *)
(***************************************************************************)
Wrap(kind, name, s2) ==
    /\ pc = "call"
    /\ calls + 2 <= MaxCalls
    /\ serializer' = s2
    /\ stack' = Append(stack, Frame(kind, kind, name, serializer.indent,
                                    Len(serializer.output), Len(serializer.output),
                                    Len(s2.output), Len(s2.output), Len(s2.output)))
    /\ calls' = calls + 1
    /\ UNCHANGED <<pc, open, last, error, result, escVars>>

\* serialize_some (lines 116-121): value.serialize(self)
SerializeSome == Wrap("some", <<>>, serializer)

\* serialize_newtype_struct (lines 141-150): value.serialize(self)
SerializeNewtypeStruct == Wrap("newtype_struct", <<>>, serializer)

SerializeNewtypeVariant ==
    \E variant \in VariantNames :
        Wrap("newtype_variant", variant, serialize_newtype_variant_enter(serializer, variant))

\* the nested value returned Ok to the wrapping method
WrapLeave ==
    /\ pc = "ret"
    /\ stack # <<>>
    /\ Top.kind \in {"some", "newtype_struct", "newtype_variant"}
    /\ serializer' = IF Top.kind = "newtype_variant"
                     THEN serialize_newtype_variant_leave(serializer)
                     ELSE serializer
    /\ last' = [method |-> Top.kind, v |-> <<>>, name |-> Top.name, d |-> Top.d,
                start |-> Top.start, end |-> Len(serializer'.output),
                from |-> Top.from, to |-> Len(serializer.output),
                depth |-> Len(open), items |-> <<>>]
    /\ stack' = Pop
    /\ UNCHANGED <<pc, open, error, result, calls, escVars>>

(***************************************************************************)
(* The producer begins a compound.                                         *)
(***************************************************************************)
Begin(kind, name, s2) ==
    /\ pc = "call"
    /\ serializer' = s2
    /\ stack' = Append(stack, Frame(kind, kind, name, serializer.indent,
                                    Len(serializer.output), 0, 0, 0, 0))
    /\ open' = Append(open, kind)
    /\ calls' = calls + 1
    /\ pc' = "body"
    /\ UNCHANGED <<last, error, result, escVars>>

SerializeSeq == Begin("seq", <<>>, serialize_seq(serializer))

SerializeTuple == Begin("tuple", <<>>, serialize_tuple(serializer))

SerializeTupleStruct == Begin("tuple_struct", <<>>, serialize_tuple_struct(serializer))

SerializeTupleVariant ==
    \E variant \in VariantNames :
        Begin("tuple_variant", variant, serialize_tuple_variant(serializer, variant))

SerializeMap == Begin("map", <<>>, serialize_map(serializer))

SerializeStruct == Begin("struct", <<>>, serialize_struct(serializer))

SerializeStructVariant ==
    \E variant \in VariantNames :
        Begin("struct_variant", variant, serialize_struct_variant(serializer, variant))

(***************************************************************************)
(* The handle's trait decides which impl a call reaches (the associated    *)
(* types of lines 38-44 are all Self).                                     *)
(***************************************************************************)
element_enter(kind, s) ==
    CASE kind = "seq" -> SerializeSeq_serialize_element_enter(s)
      [] kind = "tuple" -> SerializeTuple_serialize_element_enter(s)
      [] kind = "tuple_struct" -> SerializeTupleStruct_serialize_field_enter(s)
      [] kind = "tuple_variant" -> SerializeTupleVariant_serialize_field_enter(s)

element_leave(kind, s) ==
    CASE kind = "seq" -> SerializeSeq_serialize_element_leave(s)
      [] kind = "tuple" -> SerializeTuple_serialize_element_leave(s)
      [] kind = "tuple_struct" -> SerializeTupleStruct_serialize_field_leave(s)
      [] kind = "tuple_variant" -> SerializeTupleVariant_serialize_field_leave(s)

field_enter(kind, s, key) ==
    CASE kind = "struct" -> SerializeStruct_serialize_field_enter(s, key)
      [] kind = "struct_variant" -> SerializeStructVariant_serialize_field_enter(s, key)

field_leave(kind, s) ==
    CASE kind = "struct" -> SerializeStruct_serialize_field_leave(s)
      [] kind = "struct_variant" -> SerializeStructVariant_serialize_field_leave(s)

end(kind, s) ==
    CASE kind = "seq" -> SerializeSeq_end(s)
      [] kind = "tuple" -> SerializeTuple_end(s)
      [] kind = "tuple_struct" -> SerializeTupleStruct_end(s)
      [] kind = "tuple_variant" -> SerializeTupleVariant_end(s)
      [] kind = "map" -> SerializeMap_end(s)
      [] kind = "struct" -> SerializeStruct_end(s)
      [] kind = "struct_variant" -> SerializeStructVariant_end(s)

(***************************************************************************)
(* The producer, holding an open compound, gives it a child or ends it.    *)
(***************************************************************************)
\* a method of the open compound starts: s2 is the Serializer at its nested
\* value.serialize, f2 the compound's frame meanwhile
Enter(kind, name, s2, kfrom, kto, f2) ==
    /\ pc = "body"
    /\ calls < MaxCalls
    /\ serializer' = s2
    /\ stack' = Append([stack EXCEPT ![Len(stack)] = f2],
                       Frame(kind, kind, name, s2.indent, Top.start,
                             IF kind = "value" THEN Top.at ELSE Len(serializer.output),
                             kfrom, kto, Len(s2.output)))
    /\ pc' = "call"
    /\ UNCHANGED <<open, last, error, result, calls, escVars>>

\* SerializeSeq / SerializeTuple :: serialize_element,
\* SerializeTupleStruct / SerializeTupleVariant :: serialize_field
Element ==
    /\ stack # <<>>
    /\ Top.kind \in SeqKinds
    /\ LET s2 == element_enter(Top.kind, serializer)
       IN  Enter("element", <<>>, s2, Len(s2.output), Len(s2.output), Top)

\* SerializeStruct / SerializeStructVariant :: serialize_field
Field ==
    /\ stack # <<>>
    /\ Top.kind \in FieldKinds
    /\ \E key \in FieldNames :
          LET s2 == field_enter(Top.kind, serializer, key)
          IN  Enter("field", key, s2, Len(serializer.output) + serializer.indent,
                    Len(s2.output) - 3, Top)

\* SerializeMap::serialize_key
Key ==
    /\ stack # <<>>
    /\ Top.kind = "map"
    /\ Top.phase = "key"
    /\ LET s2 == SerializeMap_serialize_key_enter(serializer)
       IN  Enter("key", <<>>, s2, Len(s2.output), Len(s2.output), Top)

\* SerializeMap::serialize_value, after the entry's key
Value ==
    /\ stack # <<>>
    /\ Top.kind = "map"
    /\ Top.phase = "value"
    /\ LET s2 == SerializeMap_serialize_value_enter(serializer)
       IN  Enter("value", <<>>, s2, Top.kfrom, Top.kto, Top)

\* the nested value returned Ok to serialize_element or serialize_field
ElementLeave ==
    /\ pc = "ret"
    /\ stack # <<>>
    /\ Top.kind \in {"element", "field"}
    /\ serializer' = IF Top.kind = "element"
                     THEN element_leave(Parent.kind, serializer)
                     ELSE field_leave(Parent.kind, serializer)
    /\ stack' = PopInto([Parent EXCEPT !.items = Append(@, Item(Top, serializer))])
    /\ pc' = "body"
    /\ UNCHANGED <<open, last, error, result, calls, escVars>>

\* the key returned Ok to serialize_key, which returns it to the producer
KeyLeave ==
    /\ pc = "ret"
    /\ stack # <<>>
    /\ Top.kind = "key"
    /\ serializer' = SerializeMap_serialize_key_leave(serializer)
    /\ stack' = PopInto([Parent EXCEPT !.phase = "value", !.at = Top.at,
                                       !.kfrom = Top.from, !.kto = Len(serializer.output)])
    /\ pc' = "body"
    /\ UNCHANGED <<open, last, error, result, calls, escVars>>

\* the value returned Ok to serialize_value
ValueLeave ==
    /\ pc = "ret"
    /\ stack # <<>>
    /\ Top.kind = "value"
    /\ serializer' = SerializeMap_serialize_value_leave(serializer)
    /\ stack' = PopInto([Parent EXCEPT !.phase = "key",
                                       !.items = Append(@, Item(Top, serializer))])
    /\ pc' = "body"
    /\ UNCHANGED <<open, last, error, result, calls, escVars>>

\* end of the open compound's trait
End ==
    /\ pc = "body"
    /\ stack # <<>>
    /\ Top.kind \in CompoundKinds
    /\ Top.kind = "map" => Top.phase = "key"
    /\ serializer' = end(Top.kind, serializer)
    /\ last' = [method |-> Top.kind, v |-> <<>>, name |-> Top.name, d |-> Top.d,
                start |-> Top.start, end |-> Len(serializer'.output),
                from |-> Top.start, to |-> Len(serializer'.output),
                depth |-> Len(open), items |-> Top.items]
    /\ stack' = Pop
    /\ open' = SubSeq(open, 1, Len(open) - 1)
    /\ pc' = "ret"
    /\ UNCHANGED <<error, result, calls, escVars>>

(***************************************************************************)
(* Errors.  The emitter raises none; the producer's serialize may return   *)
(* Err(Error::custom(msg)) instead of calling a method, or between the     *)
(* methods of an open compound.  Every caller up the chain uses `?` (or,   *)
(* serialize_key, returns the result as it is): it returns the error and   *)
(* runs no more code.                                                      *)
(***************************************************************************)
Raise ==
    /\ pc \in {"call", "body"}
    /\ \E msg \in Messages : error' = custom(msg)
    /\ pc' = "err"
    /\ UNCHANGED <<serializer, stack, open, last, result, calls, escVars>>

\* the ? of the innermost call in progress
Propagate ==
    /\ pc = "err"
    /\ stack # <<>>
    /\ stack' = Pop
    /\ UNCHANGED <<serializer, pc, open, last, error, result, calls, escVars>>

(***************************************************************************)
(* to_string returns (lines 17-18).                                        *)
(***************************************************************************)
ToStringOk ==
    /\ pc = "ret"
    /\ stack = <<>>
    /\ result' = to_string(serializer, [tag |-> "Ok"])
    /\ pc' = "done"
    /\ UNCHANGED <<serializer, stack, open, last, error, calls, escVars>>

ToStringErr ==
    /\ pc = "err"
    /\ stack = <<>>
    /\ result' = to_string(serializer, [tag |-> "Err", error |-> error])
    /\ pc' = "done"
    /\ UNCHANGED <<serializer, stack, open, last, error, calls, escVars>>

Next ==
    \/ SerializeBool \/ SerializeI8 \/ SerializeI16 \/ SerializeI32 \/ SerializeI64
    \/ SerializeU8 \/ SerializeU16 \/ SerializeU32 \/ SerializeU64
    \/ SerializeF32 \/ SerializeF64 \/ SerializeChar \/ SerializeStr \/ SerializeBytes
    \/ SerializeNone \/ SerializeUnit \/ SerializeUnitStruct \/ SerializeUnitVariant
    \/ SerializeSome \/ SerializeNewtypeStruct \/ SerializeNewtypeVariant \/ WrapLeave
    \/ SerializeSeq \/ SerializeTuple \/ SerializeTupleStruct \/ SerializeTupleVariant
    \/ SerializeMap \/ SerializeStruct \/ SerializeStructVariant
    \/ Element \/ Field \/ Key \/ Value \/ ElementLeave \/ KeyLeave \/ ValueLeave \/ End
    \/ Raise \/ Propagate \/ ToStringOk \/ ToStringErr

Spec == Init /\ [][Next]_vars

(***************************************************************************)
(* escape_string run on its own: the for loop over s.chars(), one          *)
(* character a step, on every string up to MaxStrLen over Alphabet.        *)
(***************************************************************************)
EscapeInit ==
    /\ serializer = [output |-> <<>>, indent |-> 0]
    /\ pc = "call"
    /\ stack = <<>>
    /\ open = <<>>
    /\ last = NoCall
    /\ error = ""
    /\ result = [tag |-> "none"]
    /\ calls = 0
    /\ input \in StringsUpTo(MaxStrLen)
    /\ pos = 0
    /\ escaped = <<>>

\* one turn of the loop: match c { ... }
EscapeStep ==
    /\ pos < Len(input)
    /\ escaped' = escaped \o escape_char(input[pos + 1])
    /\ pos' = pos + 1
    /\ UNCHANGED <<input, serVars>>

EscapeNext == EscapeStep

EscapeSpec == EscapeInit /\ [][EscapeNext]_vars

(***************************************************************************)
(* Reading the output back.                                                *)
(***************************************************************************)
Out == serializer.output

\* the offset at which the line holding offset e begins
LineStart(t, e) ==
    LET nl == {i \in 1..e : t[i] = LF}
    IN  IF nl = {} THEN 0 ELSE CHOOSE i \in nl : \A j \in nl : j <= i

IsSpaces(t) == \A i \in 1..Len(t) : t[i] = SP

Sep == <<SP, "=", SP>>

\* the test oracle of the escaping: one escape sequence read back
Decode(c) ==
    CASE c = QUOTE -> QUOTE
      [] c = BACKSLASH -> BACKSLASH
      [] c = "n" -> LF
      [] c = "r" -> CR
      [] c = "t" -> TAB
      [] c = "b" -> BS
      [] c = "f" -> FF
      [] OTHER -> "invalid escape"

RECURSIVE Unescape(_)
\* escape sequences reversed left to right
Unescape(t) ==
    IF t = <<>> THEN <<>>
    ELSE IF Head(t) = BACKSLASH /\ Len(t) >= 2
         THEN <<Decode(t[2])>> \o Unescape(Tail(Tail(t)))
         ELSE <<Head(t)>> \o Unescape(Tail(t))

(***************************************************************************)
(* C1.  After to_string has serialized a fully balanced value tree (it     *)
(* returned Ok: every compound begun was ended) the indentation counter is *)
(* back at 0.                                                              *)
(***************************************************************************)
C1_IndentBackAtZero ==
    (pc = "done" /\ result.tag = "Ok") => (open = <<>> /\ serializer.indent = 0)

\* a sequence holding a tuple variant holding an element was serialized
C1_Witness ==
    /\ pc = "done"
    /\ result.tag = "Ok"
    /\ last.method = "seq"
    /\ Len(last.items) = 1
    /\ last.items[1].method = "tuple_variant"
    /\ Len(result.text) > 20

(***************************************************************************)
(* C2.  As claimed: at every point of a to_string call the counter is      *)
(* 2 x the number of compounds begun and not yet ended.                    *)
(***************************************************************************)
C2_TwoPerOpenCompound == serializer.indent = 2 * Len(open)

VariantKinds == {"tuple_variant", "struct_variant"}

\* the counter steps one compound of this kind is open for
Levels(kind) == IF kind \in VariantKinds THEN 2 ELSE 1

RECURSIVE OpenLevels(_)
OpenLevels(o) == IF o = <<>> THEN 0 ELSE Levels(Head(o)) + OpenLevels(Tail(o))

(***************************************************************************)
(* C2, amended.  Between any two calls of the protocol the counter is      *)
(* 2 x the number of open sequences, maps and records plus 4 x the number  *)
(* of open tuple and struct variants (a variant is two levels: its brace   *)
(* and its inner bracket or brace), so it is a function of the begin and   *)
(* end calls alone.                                                        *)
(***************************************************************************)
C2_IndentMirrorsNesting == serializer.indent = 2 * OpenLevels(open)

\* a sequence is open inside a tuple or struct variant
C2_Witness ==
    /\ Len(open) >= 2
    /\ open[Len(open)] = "seq"
    /\ open[Len(open) - 1] \in VariantKinds
    /\ serializer.indent >= 6

(***************************************************************************)
(* C3.  Fail fast, no partial output: once the producer has raised an      *)
(* error, every call in progress returns it without touching the output    *)
(* or the counter, the error travels unchanged, and to_string returns      *)
(* Err of that error and nothing else: no text.                            *)
(***************************************************************************)
C3_FailFast ==
    [][pc = "err" =>
         /\ serializer' = serializer
         /\ pc' \in {"err", "done"}
         /\ pc' = "err" => error' = error
         /\ pc' = "done" => result' = [tag |-> "Err", error |-> error]]_vars

\* an error raised two compounds deep, after text was written, has reached the caller
C3_Witness ==
    /\ pc = "done"
    /\ result = [tag |-> "Err", error |-> custom("boom")]
    /\ Len(open) >= 2
    /\ Len(Out) > 4

(***************************************************************************)
(* C4.  Escaping is a lossless round trip: when the loop of escape_string  *)
(* has consumed s, reversing the escape sequences of its result left to    *)
(* right gives s, the result is the text serialize_str writes, and no      *)
(* other string (up to MaxOtherLen) escapes to the same text.              *)
(***************************************************************************)
C4_EscapeRoundTrip ==
    pos = Len(input) =>
        /\ Unescape(escaped) = input
        /\ escaped = escape_string(input)
        /\ \A t \in StringsUpTo(MaxOtherLen) : escape_string(t) = escaped => t = input

\* a backslash followed by the letter n, then a real newline, was escaped
C4_Witness ==
    /\ input = <<BACKSLASH, "n", LF>>
    /\ pos = Len(input)
    /\ escaped = <<BACKSLASH, BACKSLASH, "n", BACKSLASH, "n">>

(***************************************************************************)
(* C5.  What the output shows of a completed sequence.                     *)
(***************************************************************************)
SeqMethods == {"seq", "tuple", "tuple_struct"}

\* the spaces before the closing delimiter of the call that completed last
ClosingIndent == last.end - 1 - LineStart(Out, last.end - 1)

\* every child line of the completed call starts a line with spaces only
ChildLinesIndented ==
    \A i \in 1..Len(last.items) :
        LET it == last.items[i]
        IN  /\ it.at > 0
            /\ Out[it.at] = LF
            /\ IsSpaces(Slice(Out, it.at, it.kfrom))

\* the closing delimiter c stands alone on the last line, after spaces only
ClosesWith(c) ==
    /\ Out[last.end] = c
    /\ IsSpaces(Slice(Out, LineStart(Out, last.end - 1), last.end - 1))

(***************************************************************************)
(* C5, as claimed: the closing bracket of a sequence is indented           *)
(* 2 x (nesting depth) spaces less than the sequence's children, the       *)
(* nesting depth counting the sequence itself (1 for a top-level one, the  *)
(* reading under which the claim holds at top level).                      *)
(***************************************************************************)
C5_CloseTwoPerDepthLess ==
    last.method \in SeqMethods =>
        /\ ClosesWith("]")
        /\ ChildLinesIndented
        /\ \A i \in 1..Len(last.items) :
              (last.items[i].kfrom - last.items[i].at) - ClosingIndent = 2 * last.depth

(***************************************************************************)
(* C5, amended.  The closing bracket of a sequence of N values is indented *)
(* exactly 2 spaces less than each of its children, at any nesting depth:  *)
(* it stands at the counter the sequence was begun at.                     *)
(***************************************************************************)
C5_CloseTwoLess ==
    last.method \in SeqMethods =>
        /\ ClosesWith("]")
        /\ ChildLinesIndented
        /\ ClosingIndent = last.d
        /\ \A i \in 1..Len(last.items) :
              (last.items[i].kfrom - last.items[i].at) - ClosingIndent = 2

\* a sequence with a child, itself a child of another compound, was ended
C5_Witness ==
    /\ last.method = "seq"
    /\ last.depth = 2
    /\ last.d > 0
    /\ Len(last.items) = 1
    /\ pc = "ret"

(***************************************************************************)
(* C6.  A primitive serialized on its own.                                 *)
(***************************************************************************)
ScalarMethods ==
    {"serialize_bool", "serialize_i8", "serialize_i16", "serialize_i32",
     "serialize_i64", "serialize_u8", "serialize_u16", "serialize_u32",
     "serialize_u64", "serialize_f32", "serialize_f64", "serialize_char",
     "serialize_str", "serialize_none", "serialize_unit", "serialize_unit_struct"}

TextMethods == {"serialize_char", "serialize_str"}

Delimiters == {"[", "]", "{", "}"}

\* the returned text has no newline, and no space or delimiter but those of
\* the string or character that was serialized
OneBareToken ==
    /\ Count(LF, result.text) = 0
    /\ \A c \in Delimiters \cup {SP} :
          Count(c, result.text) =
              IF last.method \in TextMethods THEN Count(c, last.v) ELSE 0

RECURSIVE ByteLines(_)
ByteLines(v) ==
    IF v = <<>> THEN <<>>
    ELSE <<SP, SP>> \o u64_to_string(Head(v)) \o <<LF>> \o ByteLines(Tail(v))

\* to_string returned Ok and the value handed to it was described by one call
\* of a method in M
ReturnedAlone(M) ==
    /\ pc = "done"
    /\ result.tag = "Ok"
    /\ last.method \in M
    /\ last.start = 0
    /\ last.end = Len(Out)

(***************************************************************************)
(* C6, as claimed: every primitive, the byte sequence included, comes out  *)
(* as one token without newline, indentation or delimiters of the          *)
(* emitter's.                                                              *)
(***************************************************************************)
C6_EveryPrimitiveOneToken ==
    ReturnedAlone(ScalarMethods \cup {"serialize_bytes"}) => OneBareToken

(***************************************************************************)
(* C6, amended.  Every primitive other than a byte sequence comes out as   *)
(* one token without newline, indentation or delimiters of the emitter's;  *)
(* a byte sequence comes out as an ordinary sequence of its bytes, one     *)
(* unsigned integer a line between [ and ].                                *)
(***************************************************************************)
C6_ScalarsOneToken ==
    /\ ReturnedAlone(ScalarMethods) => OneBareToken
    /\ ReturnedAlone({"serialize_bytes"}) =>
          result.text = <<"[", LF>> \o ByteLines(last.v) \o <<"]">>

\* a string holding spaces, brackets and braces was serialized on its own
C6_Witness ==
    /\ ReturnedAlone({"serialize_str"})
    /\ last.v = <<SP, SP, "[", "a", "]", SP, "{", "}">>
    /\ result.text = last.v

(***************************************************************************)
(* C7.  A newtype variant.  The names the producer passes are Rust         *)
(* identifiers, which escape to themselves.                                *)
(***************************************************************************)
\* the text of the call that completed last
LastText == Slice(Out, last.start, last.end)

\* the text of the value nested in the wrapper that completed last
NestedText == Slice(Out, last.from, last.to)

\* { name = nested }, and the counter is where it was when the call began
NewtypeVariantShape ==
    /\ LastText = <<"{", SP>> \o last.name \o Sep \o NestedText \o <<SP, "}">>
    /\ pc = "ret" => serializer.indent = last.d

(***************************************************************************)
(* C7, as claimed: { name = value } with no newline in the emitted text,   *)
(* whatever the nested value, and the counter unchanged.                   *)
(***************************************************************************)
C7_NewtypeVariantOneLine ==
    last.method = "newtype_variant" =>
        /\ NewtypeVariantShape
        /\ Count(LF, LastText) = 0

(***************************************************************************)
(* C7, amended.  A newtype variant is emitted as { name = value } and the  *)
(* counter after the call equals the counter before it; the emitter adds   *)
(* no newline of its own, so the text is on one line exactly when the      *)
(* nested value's serialization is (a nested sequence, map, record or      *)
(* tuple/struct variant spans several lines).                              *)
(***************************************************************************)
C7_NewtypeVariantAddsNoNewline ==
    last.method = "newtype_variant" =>
        /\ NewtypeVariantShape
        /\ Count(LF, LastText) = Count(LF, NestedText)

\* a newtype variant whose nested value spans several lines has completed
C7_Witness ==
    /\ last.method = "newtype_variant"
    /\ pc = "ret"
    /\ Count(LF, NestedText) > 0

(***************************************************************************)
(* C8.  A tuple variant begun at counter d emits { newline, d+2 spaces,    *)
(* the name, " = [" newline, each element in the producer's order on a     *)
(* line of d+4 spaces, then d+2 spaces and ] newline, then d spaces and }  *)
(* with no newline after it; the elements are written at counter d+4 and   *)
(* the counter is d again after end.                                       *)
(***************************************************************************)
RECURSIVE ElementLines(_, _)
\* the lines of the items: n spaces, the item's text, newline
ElementLines(items, n) ==
    IF items = <<>> THEN <<>>
    ELSE Spaces(n) \o Slice(Out, Head(items).from, Head(items).to) \o <<LF>>
         \o ElementLines(Tail(items), n)

C8_TupleVariantText ==
    last.method = "tuple_variant" =>
        /\ LastText = <<"{", LF>>
                      \o Spaces(last.d + 2) \o last.name \o <<SP, "=", SP, "[", LF>>
                      \o ElementLines(last.items, last.d + 4)
                      \o Spaces(last.d + 2) \o <<"]", LF>>
                      \o Spaces(last.d) \o <<"}">>
        /\ \A i \in 1..Len(last.items) : last.items[i].counter = last.d + 4
        /\ pc = "ret" => serializer.indent = last.d

\* a tuple variant with one element was begun at counter 2, inside a sequence
C8_Witness ==
    /\ last.method = "tuple_variant"
    /\ pc = "ret"
    /\ last.d = 2
    /\ Len(last.items) = 1
    /\ Out = <<"[", LF, SP, SP, "{", LF, SP, SP, SP, SP, "V", SP, "=", SP, "[", LF,
               SP, SP, SP, SP, SP, SP, "2", LF,
               SP, SP, SP, SP, "]", LF, SP, SP, "}">>

(***************************************************************************)
(* C9.  A record or map begun at counter d emits { newline, each field or  *)
(* entry in the producer's order as d+2 spaces, the serialized field name  *)
(* or key, " = ", the value serialized at counter d+2, newline, and then   *)
(* d spaces and } with no newline after it; a nested compound value's      *)
(* closing delimiter is indented d+2 spaces.                               *)
(***************************************************************************)
RECURSIVE EntryLines(_, _)
\* the lines of the items: n spaces, the key's text, " = ", the value's text, newline
EntryLines(items, n) ==
    IF items = <<>> THEN <<>>
    ELSE Spaces(n) \o Slice(Out, Head(items).kfrom, Head(items).kto) \o Sep
         \o Slice(Out, Head(items).from, Head(items).to) \o <<LF>>
         \o EntryLines(Tail(items), n)

C9_RecordText ==
    last.method \in {"struct", "map"} =>
        /\ LastText = <<"{", LF>> \o EntryLines(last.items, last.d + 2)
                      \o Spaces(last.d) \o <<"}">>
        /\ \A i \in 1..Len(last.items) :
              LET it == last.items[i]
              IN  /\ it.counter = last.d + 2
                  /\ last.method = "struct" =>
                        Slice(Out, it.kfrom, it.kto) = escape_string(it.name)
                  /\ it.method \in CompoundKinds \cup {"serialize_bytes"} =>
                        /\ Out[it.to] \in {"]", "}"}
                        /\ Slice(Out, LineStart(Out, it.to), it.to - 1) = Spaces(last.d + 2)
        /\ pc = "ret" => serializer.indent = last.d

\* a record whose fields the producer gave as b then a was ended
C9_Witness ==
    /\ last.method = "struct"
    /\ pc = "ret"
    /\ Len(last.items) = 2
    /\ last.items[1].name = <<"b">>
    /\ last.items[2].name = <<"a">>
    /\ LastText = <<"{", LF, SP, SP, "b", SP, "=", SP, "1", LF,
                    SP, SP, "a", SP, "=", SP, "s", LF, "}">>

(***************************************************************************)
(* C10.  With properly nested begin/end calls the saturation of dedent is  *)
(* never exercised: wherever the producer can call end, the counter is at  *)
(* least 2 for each dedent of that end, and end lowers it by exactly 2 for *)
(* each.                                                                   *)
(***************************************************************************)
C10_DedentNeverSaturates ==
    (pc = "body" /\ stack # <<>>) =>
        /\ serializer.indent >= 2 * Levels(Top.kind)
        /\ end(Top.kind, serializer).indent = serializer.indent - 2 * Levels(Top.kind)
        /\ dedent(serializer).indent = serializer.indent - 2

\* a top-level struct variant is about to end with the counter at exactly 4
C10_Witness ==
    /\ pc = "body"
    /\ Len(stack) = 1
    /\ Top.kind = "struct_variant"
    /\ Len(Top.items) = 1
    /\ serializer.indent = 4

====
